---- MODULE Spec2Model ----
(***************************************************************************)
(* Feature pipeline of train.py: the AudioUtil transforms and              *)
(* SoundDS.__getitem__.                                                    *)
(*                                                                         *)
(* Two scales are modelled.  The dataset pipeline runs at the production   *)
(* configuration (44100 Hz, 4000 ms, 64 mel bins, n_fft 1024), where a     *)
(* tensor is described by its shape [rows, len] and its sample rate.       *)
(* time_shift (torch roll) and spectro_augment (masking) are also modelled *)
(* on tensors with contents, on small tensors.                             *)
(*                                                                         *)
(* A rational number is a pair <<numerator, denominator>>.                 *)
(***************************************************************************)
EXTENDS Integers, Sequences, FiniteSets, TLC

VARIABLES
  self,       \* SoundDS fields: duration, sr, channel, shift_pct
  df,         \* metadata table: 0-based index -> [relative_path, classID]
  disk,       \* decoded content of the audio file at each relative path
  py_rng,     \* state of the interpreter-global `random` generator
  torch_rng,  \* state of the global torch generator
  pc,         \* per worker: position inside __getitem__
  idx,        \* per worker: the index __getitem__ was called with
  frame,      \* per worker: the local variables of __getitem__
  trace,      \* per worker: the stages run so far, with what each consumed and produced
  call,       \* a direct call of one AudioUtil function: its name and arguments
  ret         \* what that call returned

vars == <<self, df, disk, py_rng, torch_rng, pc, idx, frame, trace, call, ret>>

None == "None"

-----------------------------------------------------------------------------
(* Bounds of the model *)

RngMod == 16        \* number of states of a modelled random generator
InitialRng == 0     \* generator state when the workers start
NumItems == 2       \* rows of the metadata table
MaxRows == 2        \* channels of a directly supplied signal
MaxSigLen == 3      \* samples per channel of a directly supplied signal
MaxSample == 1      \* sample values of a directly supplied signal are 0..MaxSample
MaxMs == 2          \* max_ms of a direct pad_trunc call
MaxAxis == 3        \* mel bins / time steps of a directly supplied spectrogram
MaxMasks == 2       \* n_freq_masks / n_time_masks of a direct spectro_augment call

Workers == {"w1", "w2"}

-----------------------------------------------------------------------------
(* Arithmetic helpers *)

\* Python int(): truncation toward zero of the rational a / b, b > 0
TruncDiv(a, b) == IF a >= 0 THEN a \div b ELSE -((-a) \div b)

\* math.ceil of the rational a / b, a >= 0, b > 0
CeilDiv(a, b) == (a + b - 1) \div b

Abs(x) == IF x < 0 THEN -x ELSE x

RECURSIVE GCD(_, _)
GCD(a, b) == IF b = 0 THEN a ELSE GCD(b, a % b)

\* the rational n / d (d > 0) in lowest terms
Rat(n, d) == LET g == GCD(Abs(n), d) IN <<n \div g, d \div g>>

RECURSIVE SumSeq(_)
SumSeq(s) == IF s = <<>> THEN 0 ELSE Head(s) + SumSeq(Tail(s))

RECURSIVE Concat(_)
Concat(ss) == IF ss = <<>> THEN <<>> ELSE Head(ss) \o Concat(Tail(ss))

-----------------------------------------------------------------------------
(* The global random generators.  A generator is a state in 0..RngMod-1;   *)
(* a draw advances the state and returns the uniform value state/RngMod.   *)

rng_next(s) == (5 * s + 3) % RngMod

\* random.random(): [val |-> numerator of the uniform value over RngMod, rng |-> new state]
random_random(rng) == [val |-> rng_next(rng), rng |-> rng_next(rng)]

\* random.randint(a, b): an integer of a..b (both ends included)
random_randint(a, b, rng) ==
  LET d == random_random(rng)
  IN [val |-> a + (d.val * (b - a + 1)) \div RngMod, rng |-> d.rng]

\* torch.rand(1) on the global torch generator
torch_rand(rng) == [val |-> rng_next(rng), rng |-> rng_next(rng)]

-----------------------------------------------------------------------------
(* AudioUtil on shapes: aud = [rows, len, sr] *)

\* AudioUtil.open: torchaudio.load decodes the file at the path
open(fs, audio_file) == fs[audio_file]

\* torchaudio.transforms.Resample(sr, newsr) applied to one channel block:
\* both rates are divided by their gcd, rows are kept, the length becomes
\* ceil(newsr * len / sr)
Resample(rows, len, sr, newsr) ==
  LET g == GCD(sr, newsr)
  IN [rows |-> rows, len |-> CeilDiv((newsr \div g) * len, sr \div g)]

resample(aud, newsr) ==
  IF aud.sr = newsr
  THEN aud
  ELSE LET num_channels == aud.rows
           resig == Resample(IF num_channels < 1 THEN num_channels ELSE 1,
                             aud.len, aud.sr, newsr)
           retwo == Resample(IF num_channels < 1 THEN 0 ELSE num_channels - 1,
                             aud.len, aud.sr, newsr)
       IN IF num_channels > 1
          THEN [rows |-> resig.rows + retwo.rows, len |-> resig.len, sr |-> newsr]
          ELSE [rows |-> resig.rows, len |-> resig.len, sr |-> newsr]

\* mutant: the mono-to-stereo duplication is lost
rechannel_same(aud, new_channel) == aud

rechannel(aud, new_channel) ==
  IF aud.rows = new_channel
  THEN aud
  ELSE IF new_channel = 1
       THEN \* sig[:1, :]
            [aud EXCEPT !.rows = IF aud.rows < 1 THEN aud.rows ELSE 1]
       ELSE \* torch.cat([sig, sig])
            [aud EXCEPT !.rows = aud.rows + aud.rows]

\* mutant: the trailing pad forgets the leading pad
pad_trunc_long(aud, max_ms, rng) ==
  LET sig_len == aud.len
      max_len == (aud.sr \div 1000) * max_ms
  IN IF sig_len > max_len
     THEN [aud |-> [aud EXCEPT !.len = max_len], rng |-> rng, pad_begin_len |-> 0]
     ELSE IF sig_len < max_len
          THEN LET d == random_randint(0, max_len - sig_len, rng)
                   pad_begin_len == d.val
                   pad_end_len == max_len - sig_len
               IN [aud |-> [aud EXCEPT !.len = pad_begin_len + sig_len + pad_end_len],
                   rng |-> d.rng, pad_begin_len |-> pad_begin_len]
          ELSE [aud |-> aud, rng |-> rng, pad_begin_len |-> 0]

\* returns the signal, the generator state afterwards and the local pad_begin_len
pad_trunc(aud, max_ms, rng) ==
  LET num_rows == aud.rows
      sig_len == aud.len
      max_len == (aud.sr \div 1000) * max_ms
  IN IF sig_len > max_len
     THEN \* sig[:, :max_len]
          [aud |-> [aud EXCEPT !.len = max_len], rng |-> rng, pad_begin_len |-> 0]
     ELSE IF sig_len < max_len
          THEN LET d == random_randint(0, max_len - sig_len, rng)
                   pad_begin_len == d.val
                   pad_end_len == max_len - sig_len - pad_begin_len
               IN [aud |-> [aud EXCEPT !.len = pad_begin_len + sig_len + pad_end_len],
                   rng |-> d.rng, pad_begin_len |-> pad_begin_len]
          ELSE [aud |-> aud, rng |-> rng, pad_begin_len |-> 0]

\* int(random.random() * shift_limit * sig_len); shift_limit is a rational
shift_amount(sig_len, shift_limit, u) ==
  TruncDiv(u * shift_limit[1] * sig_len, RngMod * shift_limit[2])

\* mutant: a missing hop length is taken to be the whole window
hop_length_window(n_fft, hop_len) == IF hop_len = None THEN n_fft ELSE hop_len

\* hop_length=None: torchaudio takes win_length // 2, and win_length = n_fft
hop_length(n_fft, hop_len) == IF hop_len = None THEN n_fft \div 2 ELSE hop_len

\* MelSpectrogram (center=True) then AmplitudeToDB: shape [channel, n_mels, time]
spectro_gram(aud, n_mels, n_fft, hop_len) ==
  <<aud.rows, n_mels, aud.len \div hop_length(n_fft, hop_len) + 1>>

-----------------------------------------------------------------------------
(* time_shift on tensors with contents: aud = [sig, sr], sig a sequence of *)
(* rows (channels), each a sequence of samples                             *)

NumRows(sig) == Len(sig)
RowLen(sig) == IF Len(sig) = 0 THEN 0 ELSE Len(sig[1])
Shape(aud) == [rows |-> NumRows(aud.sig), len |-> RowLen(aud.sig), sr |-> aud.sr]

\* mutant: a shift without wrap-around, the vacated positions hold 0
roll_nowrap(sig, shifts) ==
  LET rows == NumRows(sig)
      len == RowLen(sig)
      flat == Concat(sig)
      n == Len(flat)
      rolled == [i \in 1..n |-> IF i - shifts \in 1..n THEN flat[i - shifts] ELSE 0]
  IN IF n = 0
     THEN sig
     ELSE [r \in 1..rows |-> [j \in 1..len |-> rolled[(r - 1) * len + j]]]

\* Tensor.roll(shifts) with no dims: the tensor is flattened, rolled and
\* restored to its shape
roll(sig, shifts) ==
  LET rows == NumRows(sig)
      len == RowLen(sig)
      flat == Concat(sig)
      n == Len(flat)
      rolled == [i \in 1..n |-> flat[((i - 1 - shifts) % n) + 1]]
  IN IF n = 0
     THEN sig
     ELSE [r \in 1..rows |-> [j \in 1..len |-> rolled[(r - 1) * len + j]]]

\* returns the signal, the generator state afterwards and the local shift_amt
time_shift(aud, shift_limit, rng) ==
  LET sig_len == RowLen(aud.sig)
      d == random_random(rng)
      shift_amt == shift_amount(sig_len, shift_limit, d.val)
  IN [aud |-> [sig |-> roll(aud.sig, shift_amt), sr |-> aud.sr],
      rng |-> d.rng, shift_amt |-> shift_amt]

\* time_shift on a shape: the draw is the same and roll keeps the shape
time_shift_shape(aud, shift_limit, rng) ==
  LET d == random_random(rng)
  IN [aud |-> aud, rng |-> d.rng,
      shift_amt |-> shift_amount(aud.len, shift_limit, d.val)]

-----------------------------------------------------------------------------
(* spectro_augment: spec[c][m][t] is a rational, 1-based in the model      *)

SpecShape(spec) == <<Len(spec), Len(spec[1]), Len(spec[1][1])>>

\* spec.mean()
mean(spec) ==
  LET sh == SpecShape(spec)
      total == SumSeq([c \in 1..sh[1] |->
                 SumSeq([m \in 1..sh[2] |->
                   SumSeq([t \in 1..sh[3] |-> spec[c][m][t][1]])])])
  IN Rat(total, sh[1] * sh[2] * sh[3])

\* the band torchaudio's mask_along_axis draws on an axis of the given size:
\*   value = rand * mask_param; min_value = rand * (size - value)
\*   mask_start = long(min_value); mask_end = long(min_value) + long(value)
mask_band(size, mask_param, rng) ==
  LET d1 == torch_rand(rng)
      d2 == torch_rand(d1.rng)
      p == mask_param[1]
      q == mask_param[2]
      value_long == TruncDiv(d1.val * p, RngMod * q)
      min_long == TruncDiv(d2.val * (size * RngMod * q - d1.val * p),
                           RngMod * RngMod * q)
  IN [mask_start |-> min_long, mask_end |-> min_long + value_long, rng |-> d2.rng]

\* FrequencyMasking (axis 2) / TimeMasking (axis 3) called with a mask value:
\* the cells whose 0-based position on the axis is in mask_start..mask_end-1
\* are filled with mask_value
mask_along_axis(specgram, mask_param, mask_value, axis, rng) ==
  LET sh == SpecShape(specgram)
      b == mask_band(sh[axis], mask_param, rng)
      Masked(m, t) == LET pos == IF axis = 2 THEN m - 1 ELSE t - 1
                      IN pos >= b.mask_start /\ pos < b.mask_end
  IN [spec |-> [c \in 1..sh[1] |-> [m \in 1..sh[2] |-> [t \in 1..sh[3] |->
                  IF Masked(m, t) THEN mask_value ELSE specgram[c][m][t]]]],
      rng |-> b.rng,
      band |-> <<b.mask_start, b.mask_end>>]

\* for _ in range(n): aug_spec = Masking(mask_param)(aug_spec, mask_value)
RECURSIVE masking(_, _, _, _, _, _, _)
masking(aug_spec, mask_param, mask_value, axis, n, rng, bands) ==
  IF n = 0
  THEN [spec |-> aug_spec, rng |-> rng, bands |-> bands]
  ELSE LET m == mask_along_axis(aug_spec, mask_param, mask_value, axis, rng)
       IN masking(m.spec, mask_param, mask_value, axis, n - 1, m.rng,
                  Append(bands, m.band))

\* mutant: the mask value of the time masks is the mean after frequency masking
spectro_augment_remean(spec, max_mask_pct, n_freq_masks, n_time_masks, rng) ==
  LET n_mels == SpecShape(spec)[2]
      n_steps == SpecShape(spec)[3]
      freq_mask_param == <<max_mask_pct[1] * n_mels, max_mask_pct[2]>>
      f == masking(spec, freq_mask_param, mean(spec), 2, n_freq_masks, rng, <<>>)
      time_mask_param == <<max_mask_pct[1] * n_steps, max_mask_pct[2]>>
      t == masking(f.spec, time_mask_param, mean(f.spec), 3, n_time_masks, f.rng, <<>>)
  IN [spec |-> t.spec, rng |-> t.rng, freq_bands |-> f.bands, time_bands |-> t.bands]

\* returns the augmented spectrogram, the generator state afterwards and the
\* bands that were drawn
spectro_augment(spec, max_mask_pct, n_freq_masks, n_time_masks, rng) ==
  LET n_mels == SpecShape(spec)[2]
      n_steps == SpecShape(spec)[3]
      mask_value == mean(spec)
      freq_mask_param == <<max_mask_pct[1] * n_mels, max_mask_pct[2]>>
      f == masking(spec, freq_mask_param, mask_value, 2, n_freq_masks, rng, <<>>)
      time_mask_param == <<max_mask_pct[1] * n_steps, max_mask_pct[2]>>
      t == masking(f.spec, time_mask_param, mask_value, 3, n_time_masks, f.rng, <<>>)
  IN [spec |-> t.spec, rng |-> t.rng, freq_bands |-> f.bands, time_bands |-> t.bands]

\* the draws of n maskings on an axis, without the contents
RECURSIVE band_draws(_, _, _, _, _)
band_draws(size, mask_param, n, rng, bands) ==
  IF n = 0
  THEN [rng |-> rng, bands |-> bands]
  ELSE LET b == mask_band(size, mask_param, rng)
       IN band_draws(size, mask_param, n - 1, b.rng,
                     Append(bands, <<b.mask_start, b.mask_end>>))

\* spectro_augment on a shape: masking keeps the shape and draws the same bands
spectro_augment_shape(shape, max_mask_pct, n_freq_masks, n_time_masks, rng) ==
  LET f == band_draws(shape[2], <<max_mask_pct[1] * shape[2], max_mask_pct[2]>>,
                      n_freq_masks, rng, <<>>)
      t == band_draws(shape[3], <<max_mask_pct[1] * shape[3], max_mask_pct[2]>>,
                      n_time_masks, f.rng, <<>>)
  IN [spec |-> shape, rng |-> t.rng, freq_bands |-> f.bands, time_bands |-> t.bands]

-----------------------------------------------------------------------------
(* SoundDS *)

\* SoundDS.__init__
SoundDS(data_path) ==
  [data_path |-> data_path, duration |-> 4000, sr |-> 44100, channel |-> 2,
   shift_pct |-> <<4, 10>>]

DataPath == "./UrbanSound8K/audio"

\* SoundDS.__len__
len_ds(the_df) == Cardinality(DOMAIN the_df)

\* mutant: the lookup wraps around the end of the table
loc_wrap(the_df, i, column) ==
  [raised |-> None, value |-> the_df[i % Cardinality(DOMAIN the_df)][column]]

\* self.df.loc[i, column]: label lookup on the table's 0..n-1 index
loc(the_df, i, column) ==
  IF i \in DOMAIN the_df
  THEN [raised |-> None, value |-> the_df[i][column]]
  ELSE [raised |-> "KeyError", value |-> None]

\* the call sites of __getitem__: each names the local it passes on (arg)
\* and what the call returns (val)
getitem_audio_file(s, the_df, i) == <<s.data_path, loc(the_df, i, "relative_path").value>>
getitem_aud(fs, f) == [arg |-> f.audio_file, val |-> open(fs, f.audio_file)]
getitem_reaud(s, f) == [arg |-> f.aud, val |-> resample(f.aud, s.sr)]
getitem_rechan(s, f) == [arg |-> f.reaud, val |-> rechannel(f.reaud, s.channel)]
\* mutant: pad_trunc is handed the signal from before rechannel
getitem_dur_aud_skip(s, f, rng) ==
  [arg |-> f.reaud, val |-> pad_trunc(f.reaud, s.duration, rng)]

getitem_dur_aud(s, f, rng) == [arg |-> f.rechan, val |-> pad_trunc(f.rechan, s.duration, rng)]
getitem_shift_aud(s, f, rng) ==
  [arg |-> f.dur_aud, val |-> time_shift_shape(f.dur_aud, s.shift_pct, rng)]
getitem_sgram(f) == [arg |-> f.shift_aud, val |-> spectro_gram(f.shift_aud, 64, 1024, None)]
getitem_aug_sgram(f, rng) ==
  [arg |-> f.sgram, val |-> spectro_augment_shape(f.sgram, <<1, 10>>, 2, 2, rng)]

\* the decoded clips a file may hold: channels x <<native rate, samples>>
ClipChannels == {1, 2}
ClipForms == {<<22050, 44100>>, <<44100, 264600>>, <<44100, 176000>>, <<48000, 480000>>}
Clips == {[rows |-> c, len |-> f[2], sr |-> f[1]] : c \in ClipChannels, f \in ClipForms}

Indexes == 0..(NumItems - 1)
Table == [i \in Indexes |-> [relative_path |-> i, classID |-> i % 10]]

NoFrame ==
  [audio_file |-> None, class_id |-> None, aud |-> None, reaud |-> None,
   rechan |-> None, dur_aud |-> None, shift_aud |-> None, sgram |-> None,
   aug_sgram |-> None, pad_begin_len |-> None, shift_amt |-> None,
   freq_bands |-> None, time_bands |-> None, result |-> None]

Init ==
  /\ self = SoundDS(DataPath)
  /\ df = Table
  /\ disk \in [{<<DataPath, i>> : i \in Indexes} -> Clips]
  /\ py_rng = InitialRng
  /\ torch_rng = InitialRng
  /\ pc = [w \in Workers |-> "idle"]
  /\ idx = [w \in Workers |-> None]
  /\ frame = [w \in Workers |-> NoFrame]
  /\ trace = [w \in Workers |-> <<>>]
  /\ call = None
  /\ ret = None

Ran(w, stage, consumed, produced) ==
  trace' = [trace EXCEPT ![w] =
              Append(@, [stage |-> stage, consumed |-> consumed, produced |-> produced])]

\* __getitem__(i) is entered, one call per index; lines 182-184 look the row up
GetItem(w, i) ==
  /\ pc[w] = "idle"
  /\ \A v \in Workers : pc[v] # "idle" => idx[v] # i
  /\ idx' = [idx EXCEPT ![w] = i]
  /\ IF loc(df, i, "relative_path").raised = "KeyError"
     THEN /\ pc' = [pc EXCEPT ![w] = "KeyError"]
          /\ UNCHANGED frame
     ELSE /\ pc' = [pc EXCEPT ![w] = "open"]
          /\ frame' = [frame EXCEPT ![w].audio_file = getitem_audio_file(self, df, i),
                                    ![w].class_id = loc(df, i, "classID").value]
  /\ UNCHANGED <<self, df, disk, py_rng, torch_rng, trace, call, ret>>

Open(w) ==
  /\ pc[w] = "open"
  /\ LET r == getitem_aud(disk, frame[w])
     IN /\ frame' = [frame EXCEPT ![w].aud = r.val]
        /\ Ran(w, "open", r.arg, r.val)
  /\ pc' = [pc EXCEPT ![w] = "resample"]
  /\ UNCHANGED <<self, df, disk, py_rng, torch_rng, idx, call, ret>>

ResampleStep(w) ==
  /\ pc[w] = "resample"
  /\ LET r == getitem_reaud(self, frame[w])
     IN /\ frame' = [frame EXCEPT ![w].reaud = r.val]
        /\ Ran(w, "resample", r.arg, r.val)
  /\ pc' = [pc EXCEPT ![w] = "rechannel"]
  /\ UNCHANGED <<self, df, disk, py_rng, torch_rng, idx, call, ret>>

Rechannel(w) ==
  /\ pc[w] = "rechannel"
  /\ LET r == getitem_rechan(self, frame[w])
     IN /\ frame' = [frame EXCEPT ![w].rechan = r.val]
        /\ Ran(w, "rechannel", r.arg, r.val)
  /\ pc' = [pc EXCEPT ![w] = "pad_trunc"]
  /\ UNCHANGED <<self, df, disk, py_rng, torch_rng, idx, call, ret>>

PadTrunc(w) ==
  /\ pc[w] = "pad_trunc"
  /\ LET r == getitem_dur_aud(self, frame[w], py_rng)
     IN /\ frame' = [frame EXCEPT ![w].dur_aud = r.val.aud,
                                  ![w].pad_begin_len = r.val.pad_begin_len]
        /\ py_rng' = r.val.rng
        /\ Ran(w, "pad_trunc", r.arg, r.val.aud)
  /\ pc' = [pc EXCEPT ![w] = "time_shift"]
  /\ UNCHANGED <<self, df, disk, torch_rng, idx, call, ret>>

TimeShift(w) ==
  /\ pc[w] = "time_shift"
  /\ LET r == getitem_shift_aud(self, frame[w], py_rng)
     IN /\ frame' = [frame EXCEPT ![w].shift_aud = r.val.aud,
                                  ![w].shift_amt = r.val.shift_amt]
        /\ py_rng' = r.val.rng
        /\ Ran(w, "time_shift", r.arg, r.val.aud)
  /\ pc' = [pc EXCEPT ![w] = "spectro_gram"]
  /\ UNCHANGED <<self, df, disk, torch_rng, idx, call, ret>>

SpectroGram(w) ==
  /\ pc[w] = "spectro_gram"
  /\ LET r == getitem_sgram(frame[w])
     IN /\ frame' = [frame EXCEPT ![w].sgram = r.val]
        /\ Ran(w, "spectro_gram", r.arg, r.val)
  /\ pc' = [pc EXCEPT ![w] = "spectro_augment"]
  /\ UNCHANGED <<self, df, disk, py_rng, torch_rng, idx, call, ret>>

SpectroAugment(w) ==
  /\ pc[w] = "spectro_augment"
  /\ LET r == getitem_aug_sgram(frame[w], torch_rng)
     IN /\ frame' = [frame EXCEPT ![w].aug_sgram = r.val.spec,
                                  ![w].freq_bands = r.val.freq_bands,
                                  ![w].time_bands = r.val.time_bands]
        /\ torch_rng' = r.val.rng
        /\ Ran(w, "spectro_augment", r.arg, r.val.spec)
  /\ pc' = [pc EXCEPT ![w] = "return"]
  /\ UNCHANGED <<self, df, disk, py_rng, idx, call, ret>>

\* return aug_sgram, class_id.  The tensor is described by its shape and by
\* the random choices that decided its contents.
Returned(f) ==
  [aug_sgram |-> f.aug_sgram, class_id |-> f.class_id,
   pad_begin_len |-> f.pad_begin_len, shift_amt |-> f.shift_amt,
   freq_bands |-> f.freq_bands, time_bands |-> f.time_bands]

Return(w) ==
  /\ pc[w] = "return"
  /\ frame' = [frame EXCEPT ![w].result = Returned(frame[w])]
  /\ pc' = [pc EXCEPT ![w] = "done"]
  /\ UNCHANGED <<self, df, disk, py_rng, torch_rng, idx, trace, call, ret>>

Next ==
  \E w \in Workers :
    \/ \E i \in 0..NumItems : GetItem(w, i)
    \/ Open(w)
    \/ ResampleStep(w)
    \/ Rechannel(w)
    \/ PadTrunc(w)
    \/ TimeShift(w)
    \/ SpectroGram(w)
    \/ SpectroAugment(w)
    \/ Return(w)

Spec == Init /\ [][Next]_vars

\* __getitem__(i) run from start to end on its own, from the given generator states
getitem(s, the_df, fs, i, py, to) ==
  LET f0 == [NoFrame EXCEPT !.audio_file = getitem_audio_file(s, the_df, i),
                            !.class_id = loc(the_df, i, "classID").value]
      f1 == [f0 EXCEPT !.aud = getitem_aud(fs, f0).val]
      f2 == [f1 EXCEPT !.reaud = getitem_reaud(s, f1).val]
      f3 == [f2 EXCEPT !.rechan = getitem_rechan(s, f2).val]
      d == getitem_dur_aud(s, f3, py).val
      f4 == [f3 EXCEPT !.dur_aud = d.aud, !.pad_begin_len = d.pad_begin_len]
      t == getitem_shift_aud(s, f4, d.rng).val
      f5 == [f4 EXCEPT !.shift_aud = t.aud, !.shift_amt = t.shift_amt]
      f6 == [f5 EXCEPT !.sgram = getitem_sgram(f5).val]
      a == getitem_aug_sgram(f6, to).val
      f7 == [f6 EXCEPT !.aug_sgram = a.spec, !.freq_bands = a.freq_bands,
                       !.time_bands = a.time_bands]
  IN Returned(f7)

-----------------------------------------------------------------------------
(* Properties of the dataset pipeline (specification Spec) *)

ScenarioA == [rows |-> 1, len |-> 44100, sr |-> 22050]   \* mono, 22.05 kHz, 2 s
ScenarioB == [rows |-> 2, len |-> 264600, sr |-> 44100]  \* stereo, 44.1 kHz, 6 s

\* targetLen = floor(targetSampleRate / 1000) * targetDurationMs
TargetLen == (self.sr \div 1000) * self.duration

\* C2: every item __getitem__ returns has the shape
\* (targetChannelCount, melBinCount, floor(targetLen / hopLength) + 1),
\* whatever the clip's channels, rate and length and whatever was drawn.
C2_FixedShape ==
  \A w \in Workers :
    pc[w] = "done" =>
      frame[w].result.aug_sgram = <<self.channel, 64, TargetLen \div (1024 \div 2) + 1>>

\* C2 witness: the scenario A clip and the scenario B clip have both been
\* returned, B was truncated, A was padded, and the two shapes are equal.
C2_Witness ==
  \E v, w \in Workers :
    /\ pc[v] = "done" /\ pc[w] = "done"
    /\ frame[v].aud = ScenarioA /\ frame[w].aud = ScenarioB
    /\ frame[v].rechan.len < frame[v].dur_aud.len
    /\ frame[w].rechan.len > frame[w].dur_aud.len
    /\ frame[w].dur_aud.len = TargetLen
    /\ frame[v].result.aug_sgram = frame[w].result.aug_sgram

\* C3 as stated: the scenario A clip yields a spectrogram of shape (2, 64, 173).
C3_ScenarioA_173 ==
  \A w \in Workers :
    (pc[w] = "done" /\ frame[w].aud = ScenarioA) =>
      frame[w].result.aug_sgram = <<2, 64, 173>>

\* C3 amended: the scenario A clip yields a spectrogram of shape (2, 64, 344),
\* the frame count being floor(sampleCount / 512) + 1 of the duration-normalized
\* signal, which has 176000 samples.
C3_ScenarioA_344 ==
  \A w \in Workers :
    (pc[w] = "done" /\ frame[w].aud = ScenarioA) =>
      /\ frame[w].dur_aud.len = 176000
      /\ frame[w].result.aug_sgram = <<2, 64, 344>>
      /\ frame[w].result.aug_sgram[3] = frame[w].dur_aud.len \div 512 + 1

\* C3 witness: a call on the scenario A clip has returned.
C3_Witness ==
  \E w \in Workers :
    /\ pc[w] = "done"
    /\ frame[w].aud = ScenarioA
    /\ trace[w][6].stage = "spectro_gram"
    /\ trace[w][6].produced[3] = 344

StageOrder ==
  <<"open", "resample", "rechannel", "pad_trunc", "time_shift", "spectro_gram",
    "spectro_augment">>

\* C6: the stages a call has run are always a prefix of load, resample,
\* rechannel, padOrTruncate, timeShift, melSpectrogramDb, augment, each one
\* consuming what the stage before it produced; a call that returns has run
\* all seven, once each, and returns what the last one produced.
C6_StageOrder ==
  \A w \in Workers :
    /\ Len(trace[w]) <= Len(StageOrder)
    /\ \A k \in 1..Len(trace[w]) :
         /\ trace[w][k].stage = StageOrder[k]
         /\ k > 1 => trace[w][k].consumed = trace[w][k - 1].produced
    /\ pc[w] \in {"return", "done"} => Len(trace[w]) = Len(StageOrder)
    /\ pc[w] = "done" => frame[w].result.aug_sgram = trace[w][Len(StageOrder)].produced

\* C6 witness: a call has returned in which resample, rechannel and
\* pad_trunc each changed the signal.
C6_Witness ==
  \E w \in Workers :
    /\ pc[w] = "done"
    /\ Len(trace[w]) = 7
    /\ frame[w].aud # frame[w].reaud
    /\ frame[w].reaud # frame[w].rechan
    /\ frame[w].rechan # frame[w].dur_aud

\* C7 as stated: for the fixed initial generator state, the result for an
\* index is the same under every interleaving of the calls; in particular it
\* is the result of the interleaving in which that call runs first.
C7_SameUnderEveryInterleaving ==
  \A w \in Workers :
    pc[w] = "done" =>
      frame[w].result = getitem(self, df, disk, idx[w], InitialRng, InitialRng)

\* C9: a call with an index outside the table raises (KeyError) before any
\* stage has run, and the step that raises leaves the dataset object, the
\* table, the files and both generators as they were.
C9_IndexOutOfRange ==
  /\ [](\A w \in Workers :
          (pc[w] # "idle" /\ idx[w] >= len_ds(df)) =>
            (pc[w] = "KeyError" /\ trace[w] = <<>> /\ frame[w] = NoFrame))
  /\ [][\A w \in Workers :
          (pc[w] = "idle" /\ pc'[w] = "KeyError") =>
            UNCHANGED <<self, df, disk, py_rng, torch_rng, frame, trace>>]_vars

\* C9 witness: a call with the index len(df) has raised after another call
\* has run to its end.
C9_Witness ==
  \E v, w \in Workers :
    /\ pc[w] = "KeyError" /\ idx[w] = len_ds(df)
    /\ trace[w] = <<>>
    /\ pc[v] = "done"

-----------------------------------------------------------------------------
(* Direct calls of the AudioUtil functions (specification SpecUtil): the    *)
(* initial state holds one call with its arguments, the action applies the *)
(* function                                                                *)

Rngs == 0..(RngMod - 1)

\* signals given by shape: 1..MaxRows channels, 0..MaxSigLen samples
ShapeRates == {999, 1000, 2500, 44100}
ShapeInputs ==
  {[rows |-> r, len |-> n, sr |-> q] : r \in 1..MaxRows, n \in 0..MaxSigLen, q \in ShapeRates}

\* signals with contents: sample j of channel r is (a*r + b*j + c) mod (MaxSample+1)
SigPattern(rows, len, a, b, c) ==
  [r \in 1..rows |-> [j \in 1..len |-> (a * r + b * j + c) % (MaxSample + 1)]]
SigInputs ==
  {[sig |-> SigPattern(r, n, a, b, c), sr |-> 44100] :
     r \in ClipChannels, n \in 0..MaxSigLen,
     a \in 0..MaxSample, b \in 0..MaxSample, c \in 0..MaxSample}

ShiftLimits == {<<-1, 1>>, <<0, 1>>, <<4, 10>>, <<1, 1>>, <<2, 1>>}

\* spectrograms with contents: cell (c, m, t) is (a*c + b*m + d*t) mod 3 - 1 decibels
SpecPattern(ch, n_mels, n_steps, a, b, d) ==
  [c \in 1..ch |-> [m \in 1..n_mels |-> [t \in 1..n_steps |->
     <<((a * c + b * m + d * t) % 3) - 1, 1>>]]]
SpecInputs ==
  {SpecPattern(ch, m, t, a, b, d) :
     ch \in ClipChannels, m \in 1..MaxAxis, t \in 1..MaxAxis,
     a \in 0..1, b \in 0..1, d \in 0..1}

MaskPcts == {<<1, 10>>, <<1, 2>>, <<1, 1>>}

RechannelCalls ==
  {[fn |-> "rechannel", aud |-> x, new_channel |-> n] :
     x \in ShapeInputs, n \in 0..(MaxRows + 1)}
PadTruncCalls ==
  {[fn |-> "pad_trunc", aud |-> x, max_ms |-> ms, rng |-> g] :
     x \in ShapeInputs, ms \in 1..MaxMs, g \in Rngs}
TimeShiftCalls ==
  {[fn |-> "time_shift", aud |-> x, shift_limit |-> l, rng |-> g] :
     x \in SigInputs, l \in ShiftLimits, g \in Rngs}
SpectroAugmentCalls ==
  {[fn |-> "spectro_augment", spec |-> x, max_mask_pct |-> p, n_freq_masks |-> nf,
    n_time_masks |-> nt, rng |-> g] :
     x \in SpecInputs, p \in MaskPcts, nf \in 0..MaxMasks, nt \in 0..MaxMasks, g \in Rngs}

Pending == [status |-> "pending"]
Returns(value) == [status |-> "returned", value |-> value]

InitUtil ==
  /\ self = SoundDS(DataPath)
  /\ df = Table
  /\ disk = [p \in {<<DataPath, i>> : i \in Indexes} |-> [rows |-> 1, len |-> 44100, sr |-> 22050]]
  /\ py_rng = InitialRng
  /\ torch_rng = InitialRng
  /\ pc = [w \in Workers |-> "idle"]
  /\ idx = [w \in Workers |-> None]
  /\ frame = [w \in Workers |-> NoFrame]
  /\ trace = [w \in Workers |-> <<>>]
  /\ \/ call \in RechannelCalls
     \/ call \in PadTruncCalls
     \/ call \in TimeShiftCalls
     \/ call \in SpectroAugmentCalls
  /\ ret = Pending

Idle == UNCHANGED <<self, df, disk, py_rng, torch_rng, pc, idx, frame, trace, call>>

CallRechannel ==
  /\ ret.status = "pending" /\ call.fn = "rechannel"
  /\ ret' = Returns(rechannel(call.aud, call.new_channel))
  /\ Idle

CallPadTrunc ==
  /\ ret.status = "pending" /\ call.fn = "pad_trunc"
  /\ ret' = Returns(pad_trunc(call.aud, call.max_ms, call.rng))
  /\ Idle

CallTimeShift ==
  /\ ret.status = "pending" /\ call.fn = "time_shift"
  /\ ret' = Returns(time_shift(call.aud, call.shift_limit, call.rng))
  /\ Idle

CallSpectroAugment ==
  /\ ret.status = "pending" /\ call.fn = "spectro_augment"
  /\ ret' = Returns(spectro_augment(call.spec, call.max_mask_pct, call.n_freq_masks,
                                     call.n_time_masks, call.rng))
  /\ Idle

NextUtil == CallRechannel \/ CallPadTrunc \/ CallTimeShift \/ CallSpectroAugment

SpecUtil == InitUtil /\ [][NextUtil]_vars

-----------------------------------------------------------------------------
(* Properties of the AudioUtil functions (specification SpecUtil) *)

Returned_(fn) == call.fn = fn /\ ret.status = "returned"

\* C1: pad_trunc returns a signal of exactly floor(sampleRate / 1000) *
\* targetDurationMs samples, in the truncate, pad and equal-length branches
\* and for every pad length drawn, with the channels and sample rate of its input.
C1_PadTruncLength ==
  Returned_("pad_trunc") =>
    /\ ret.value.aud.len = (call.aud.sr \div 1000) * call.max_ms
    /\ ret.value.aud.rows = call.aud.rows
    /\ ret.value.aud.sr = call.aud.sr

\* C1 witness: a shorter signal was padded on both sides.
C1_Witness ==
  /\ Returned_("pad_trunc")
  /\ call.aud.len > 0
  /\ call.aud.len < ret.value.aud.len
  /\ ret.value.pad_begin_len > 0
  /\ ret.value.pad_begin_len < ret.value.aud.len - call.aud.len

\* the other two branches of pad_trunc are taken as well
C1_TruncateTaken == ~(Returned_("pad_trunc") /\ call.aud.len > ret.value.aud.len)
C1_EqualTaken ==
  ~(Returned_("pad_trunc") /\ call.aud.len = (call.aud.sr \div 1000) * call.max_ms
    /\ call.aud.len > 0)

\* a row rotated by k positions along the time axis
RotateRow(row, k) ==
  [j \in 1..Len(row) |-> row[((j - 1 - k) % Len(row)) + 1]]

\* C4 as stated: every channel of time_shift's output is the same channel of
\* the input rotated by shiftAmount along the time axis.
C4_PerChannelRotation ==
  Returned_("time_shift") =>
    \A r \in 1..NumRows(call.aud.sig) :
      ret.value.aud.sig[r] = RotateRow(call.aud.sig[r], ret.value.shift_amt)

\* how often the value v occurs in a tensor
Occurrences(sig, v) ==
  Cardinality({rj \in (1..NumRows(sig)) \X (1..RowLen(sig)) : sig[rj[1]][rj[2]] = v})

\* C5: time_shift keeps sampleCount, channelCount and sampleRate, and its
\* output holds every sample value as often as its input does.
C5_TimeShiftPermutation ==
  Returned_("time_shift") =>
    /\ Shape(ret.value.aud) = Shape(call.aud)
    /\ \A r \in 1..NumRows(ret.value.aud.sig) :
         Len(ret.value.aud.sig[r]) = RowLen(call.aud.sig)
    /\ \A v \in 0..MaxSample :
         Occurrences(ret.value.aud.sig, v) = Occurrences(call.aud.sig, v)
    /\ \A rj \in (1..NumRows(ret.value.aud.sig)) \X (1..RowLen(ret.value.aud.sig)) :
         ret.value.aud.sig[rj[1]][rj[2]] \in 0..MaxSample

\* C5 witness: a two-channel signal came back shifted by a non-zero amount
\* and differs from the input.
C5_Witness ==
  /\ Returned_("time_shift")
  /\ NumRows(call.aud.sig) = 2
  /\ ret.value.shift_amt > 0
  /\ ret.value.aud.sig # call.aud.sig

\* time_shift on shapes agrees with time_shift on tensors
TimeShiftShapeAgrees ==
  Returned_("time_shift") =>
    LET t == time_shift_shape(Shape(call.aud), call.shift_limit, call.rng)
    IN /\ t.aud = Shape(ret.value.aud)
       /\ t.rng = ret.value.rng
       /\ t.shift_amt = ret.value.shift_amt

\* C8 as stated: rechannel with a target outside {1, 2} that differs from the
\* input's channel count fails with UnsupportedChannelError; it never returns
\* a signal whose channel count differs from the target.
C8_UnsupportedChannelError ==
  (call.fn = "rechannel" /\ ret.status # "pending"
   /\ call.new_channel \notin {1, 2} /\ call.aud.rows # call.new_channel) =>
    /\ ret.status = "UnsupportedChannelError"
    /\ ~(ret.status = "returned" /\ ret.value.rows # call.new_channel)

InBand(bands, pos) == \E k \in 1..Len(bands) : pos >= bands[k][1] /\ pos < bands[k][2]

\* C10: spectro_augment keeps the shape; a cell inside a drawn band holds the
\* mean of the input spectrogram, a cell outside all bands holds the input
\* cell; every band lies within its axis and is at most maxMaskFraction times
\* the axis long.
C10_Augment ==
  Returned_("spectro_augment") =>
    LET sh == SpecShape(call.spec)
        out == ret.value.spec
        fb == ret.value.freq_bands
        tb == ret.value.time_bands
        pct == call.max_mask_pct
    IN /\ SpecShape(out) = sh
       /\ \A c \in 1..sh[1] : Len(out[c]) = sh[2] /\ \A m \in 1..sh[2] : Len(out[c][m]) = sh[3]
       /\ Len(fb) = call.n_freq_masks /\ Len(tb) = call.n_time_masks
       /\ \A c \in 1..sh[1], m \in 1..sh[2], t \in 1..sh[3] :
            IF InBand(fb, m - 1) \/ InBand(tb, t - 1)
            THEN out[c][m][t] = mean(call.spec)
            ELSE out[c][m][t] = call.spec[c][m][t]
       /\ \A k \in 1..Len(fb) :
            /\ 0 <= fb[k][1] /\ fb[k][1] <= fb[k][2] /\ fb[k][2] <= sh[2]
            /\ (fb[k][2] - fb[k][1]) * pct[2] <= pct[1] * sh[2]
       /\ \A k \in 1..Len(tb) :
            /\ 0 <= tb[k][1] /\ tb[k][1] <= tb[k][2] /\ tb[k][2] <= sh[3]
            /\ (tb[k][2] - tb[k][1]) * pct[2] <= pct[1] * sh[3]

\* C10 witness: two frequency masks and two time masks were applied, one band
\* of each axis is not empty, a masked cell changed and an unmasked cell exists.
C10_Witness ==
  /\ Returned_("spectro_augment")
  /\ call.n_freq_masks = 2 /\ call.n_time_masks = 2
  /\ \E k \in 1..2 : ret.value.freq_bands[k][2] > ret.value.freq_bands[k][1]
  /\ \E k \in 1..2 : ret.value.time_bands[k][2] > ret.value.time_bands[k][1]
  /\ LET sh == SpecShape(call.spec)
     IN /\ \E c \in 1..sh[1], m \in 1..sh[2], t \in 1..sh[3] :
             /\ InBand(ret.value.freq_bands, m - 1) \/ InBand(ret.value.time_bands, t - 1)
             /\ ret.value.spec[c][m][t] # call.spec[c][m][t]
        /\ \E c \in 1..sh[1], m \in 1..sh[2], t \in 1..sh[3] :
             ~(InBand(ret.value.freq_bands, m - 1) \/ InBand(ret.value.time_bands, t - 1))

\* spectro_augment on shapes agrees with spectro_augment on tensors
AugmentShapeAgrees ==
  Returned_("spectro_augment") =>
    LET a == spectro_augment_shape(SpecShape(call.spec), call.max_mask_pct,
                                   call.n_freq_masks, call.n_time_masks, call.rng)
    IN /\ a.spec = SpecShape(ret.value.spec)
       /\ a.rng = ret.value.rng
       /\ a.freq_bands = ret.value.freq_bands
       /\ a.time_bands = ret.value.time_bands

====
